---------------------------- MODULE Spec2Model ----------------------------
(***************************************************************************)
(* BugRelay MCP server (docs/mcp/server.py): the tool dispatch and the     *)
(* request forwarding of BugRelayMCPServer.                                *)
(*                                                                         *)
(* A tool invocation is delivered by the protocol runtime (Call), runs     *)
(* handle_call_tool -> _execute_tool -> _<tool> -> _make_request up to the *)
(* await on the HTTP client (Execute), is resumed by the backend's answer  *)
(* or by a transport failure (Respond), and hands its payload back to the  *)
(* runtime (Deliver).  Spec delivers one invocation at a time; InFlightSpec *)
(* delivers them without waiting (CallInFlight) and cancels them (Cancel). *)
(*                                                                         *)
(* Python values are tagged records: None, S("text"), D(function from key  *)
(* to value), L(sequence).  Texts are TLA+ strings, built with \o the way  *)
(* the f-strings of the source build them.                                 *)
(***************************************************************************)
EXTENDS Integers, Sequences, FiniteSets, TLC

VARIABLES
    api_key,        \* self.api_key, fixed by __init__
    pc,             \* per invocation slot: "idle", "called", "awaiting", "done", "escaped"
    name,           \* the tool name of the invocation
    arguments,      \* its argument mapping (None or a dict)
    sent,           \* the HTTP requests the invocation handed to self.client.request
    response,       \* what the HTTP client answered the invocation with
    result,         \* the list of TextContent handle_call_tool returned
    login_result    \* what the most recent successful login_user returned to the caller

vars == <<api_key, pc, name, arguments, sent, response, result, login_result>>

---------------------------------------------------------------------------
(* Python values *)

None == [ty |-> "NoneType"]
S(s) == [ty |-> "str", s |-> s]
D(f) == [ty |-> "dict", d |-> f]
L(q) == [ty |-> "list", l |-> q]

EmptyDict == D([k \in {} |-> None])

\* bool(v): None, "" , {} and [] are falsy
Truthy(v) ==
    CASE v.ty = "NoneType" -> FALSE
      [] v.ty = "str"      -> v.s # ""
      [] v.ty = "dict"     -> DOMAIN v.d # {}
      [] v.ty = "list"     -> v.l # <<>>

\* str(v) / f"{v}" for the scalars that reach a path or a message
Str(v) ==
    CASE v.ty = "NoneType" -> "None"
      [] v.ty = "str"      -> v.s
      [] OTHER             -> "<object>"

\* args.get(key, default)
Get(args, key, default) == IF key \in DOMAIN args THEN args[key] ELSE default

\* the first key of keys that args[key] would raise KeyError on; "" if none
FirstMissing(args, keys) ==
    LET miss == {i \in 1..Len(keys) : keys[i] \notin DOMAIN args}
    IN  IF miss = {} THEN ""
        ELSE keys[CHOOSE i \in miss : \A j \in miss : i <= j]

\* outcomes of a coroutine: it raises, or it reaches the await on the client
Raise(type, msg) == [kind |-> "raise", type |-> type, msg |-> msg]
Return(value)    == [kind |-> "return", value |-> value]
\* str(KeyError(key)) is the repr of the key
KeyError(key)    == Raise("KeyError", "'" \o key \o "'")

---------------------------------------------------------------------------
(* __init__ *)

base_url == "http://localhost:8080"

NumTasks == 2
Tasks == 1..NumTasks

ApiKeys == {None, S(""), S("key-1")}

---------------------------------------------------------------------------
(* _make_request, up to the await *)

\* urljoin(f"{self.base_url}/", endpoint.lstrip('/')): every endpoint of the
\* tools starts with exactly one "/" and base_url has its trailing "/" stripped
url_of(endpoint) == base_url \o endpoint

base_headers ==
    "Content-Type" :> "application/json" @@ "User-Agent" :> "BugRelay-MCP-Server/1.0"

\* the headers with `is not None` tests in place of the truth tests
auth_headers_not_none(auth_token) ==
    IF auth_token # None THEN "Authorization" :> ("Bearer " \o Str(auth_token))
    ELSE IF api_key # None THEN "X-API-Key" :> Str(api_key)
    ELSE [k \in {} |-> ""]

auth_headers(auth_token) ==
    IF Truthy(auth_token) THEN "Authorization" :> ("Bearer " \o Str(auth_token))
    ELSE IF Truthy(api_key) THEN "X-API-Key" :> Str(api_key)
    ELSE [k \in {} |-> ""]

\* the keyword arguments of self.client.request
_make_request(method, endpoint, data, params, auth_token) ==
    [kind    |-> "await",
     request |-> [method  |-> method,
                  url     |-> url_of(endpoint),
                  json    |-> data,
                  params  |-> params,
                  headers |-> auth_headers(auth_token) @@ base_headers]]

---------------------------------------------------------------------------
(* the tool implementations: args is the dict's key -> value function *)

\* Bug management
_create_bug_report(args) ==
    _make_request("POST", "/api/v1/bugs", D(args), None, None)

\* _get_bug_report reading bug_id with args.get
_get_bug_report_lenient(args) ==
    _make_request("GET", "/api/v1/bugs/" \o Str(Get(args, "bug_id", None)), None, None, None)

_get_bug_report(args) ==
    LET m == FirstMissing(args, <<"bug_id">>)
    IN  IF m # "" THEN KeyError(m)
        ELSE _make_request("GET", "/api/v1/bugs/" \o Str(args["bug_id"]), None, None, None)

\* _list_bug_reports passing the arguments as data too
_list_bug_reports_body(args) ==
    _make_request("GET", "/api/v1/bugs", D(args), D(args), None)

_list_bug_reports(args) ==
    _make_request("GET", "/api/v1/bugs", None, D(args), None)

_vote_on_bug(args) ==
    LET m == FirstMissing(args, <<"bug_id", "vote_type">>)
    IN  IF m # "" THEN KeyError(m)
        ELSE _make_request("POST", "/api/v1/bugs/" \o Str(args["bug_id"]) \o "/vote",
                          D("vote_type" :> args["vote_type"]), None, None)

_add_bug_comment(args) ==
    LET m == FirstMissing(args, <<"bug_id", "content">>)
    IN  IF m # "" THEN KeyError(m)
        ELSE _make_request("POST", "/api/v1/bugs/" \o Str(args["bug_id"]) \o "/comments",
                          D("content" :> args["content"]), None, None)

_update_bug_status(args) ==
    LET m == FirstMissing(args, <<"bug_id", "status">>)
    IN  IF m # "" THEN KeyError(m)
        ELSE _make_request("PATCH", "/api/v1/bugs/" \o Str(args["bug_id"]) \o "/status",
                          D("status" :> args["status"]
                            @@ "resolution_notes" :> Get(args, "resolution_notes", None)),
                          None, None)

\* User authentication
_register_user(args) ==
    _make_request("POST", "/api/v1/auth/register", D(args), None, None)

_login_user(args) ==
    _make_request("POST", "/api/v1/auth/login", D(args), None, None)

_get_user_profile(args) ==
    _make_request("GET", "/api/v1/auth/profile", None, None, None)

_update_user_profile(args) ==
    _make_request("PUT", "/api/v1/auth/profile", D(args), None, None)

_request_password_reset(args) ==
    _make_request("POST", "/api/v1/auth/password-reset", D(args), None, None)

_verify_email(args) ==
    _make_request("GET", "/api/v1/auth/verify-email", None, D(args), None)

\* Company management
_list_companies(args) ==
    _make_request("GET", "/api/v1/companies", None, D(args), None)

_get_company(args) ==
    LET m == FirstMissing(args, <<"company_id">>)
    IN  IF m # "" THEN KeyError(m)
        ELSE _make_request("GET", "/api/v1/companies/" \o Str(args["company_id"]),
                          None, None, None)

_claim_company(args) ==
    LET m == FirstMissing(args, <<"company_id", "verification_email">>)
    IN  IF m # "" THEN KeyError(m)
        ELSE _make_request("POST", "/api/v1/companies/" \o Str(args["company_id"]) \o "/claim",
                          D("verification_email" :> args["verification_email"]), None, None)

_verify_company_claim(args) ==
    LET m == FirstMissing(args, <<"company_id", "verification_token">>)
    IN  IF m # "" THEN KeyError(m)
        ELSE _make_request("POST", "/api/v1/companies/" \o Str(args["company_id"]) \o "/verify",
                          D("verification_token" :> args["verification_token"]), None, None)

\* _get_company_dashboard with the path of _get_company
_get_company_dashboard_root(args) ==
    LET m == FirstMissing(args, <<"company_id">>)
    IN  IF m # "" THEN KeyError(m)
        ELSE _make_request("GET", "/api/v1/companies/" \o Str(args["company_id"]),
                          None, None, None)

_get_company_dashboard(args) ==
    LET m == FirstMissing(args, <<"company_id">>)
    IN  IF m # "" THEN KeyError(m)
        ELSE _make_request("GET",
                          "/api/v1/companies/" \o Str(args["company_id"]) \o "/dashboard",
                          None, None, None)

_add_team_member(args) ==
    LET m == FirstMissing(args, <<"company_id", "user_email">>)
    IN  IF m # "" THEN KeyError(m)
        ELSE _make_request("POST", "/api/v1/companies/" \o Str(args["company_id"]) \o "/members",
                          D("user_email" :> args["user_email"]
                            @@ "role" :> Get(args, "role", S("member"))),
                          None, None)

_remove_team_member(args) ==
    LET m == FirstMissing(args, <<"company_id", "user_id">>)
    IN  IF m # "" THEN KeyError(m)
        ELSE _make_request("DELETE",
                          "/api/v1/companies/" \o Str(args["company_id"]) \o "/members",
                          D("user_id" :> args["user_id"]), None, None)

\* Admin
_get_admin_dashboard(args) ==
    _make_request("GET", "/api/v1/admin/dashboard", None, D(args), None)

_list_bugs_for_moderation(args) ==
    _make_request("GET", "/api/v1/admin/bugs", None, D(args), None)

_flag_bug(args) ==
    LET m == FirstMissing(args, <<"bug_id", "reason">>)
    IN  IF m # "" THEN KeyError(m)
        ELSE _make_request("POST", "/api/v1/admin/bugs/" \o Str(args["bug_id"]) \o "/flag",
                          D("reason" :> args["reason"] @@ "notes" :> Get(args, "notes", None)),
                          None, None)

_remove_bug(args) ==
    LET m == FirstMissing(args, <<"bug_id">>)
    IN  IF m # "" THEN KeyError(m)
        ELSE _make_request("DELETE", "/api/v1/admin/bugs/" \o Str(args["bug_id"]),
                          None, None, None)

_restore_bug(args) ==
    LET m == FirstMissing(args, <<"bug_id">>)
    IN  IF m # "" THEN KeyError(m)
        ELSE _make_request("POST", "/api/v1/admin/bugs/" \o Str(args["bug_id"]) \o "/restore",
                          None, None, None)

_merge_bugs(args) ==
    _make_request("POST", "/api/v1/admin/bugs/merge", D(args), None, None)

_get_audit_logs(args) ==
    _make_request("GET", "/api/v1/admin/audit-logs", None, D(args), None)

\* OAuth
_initiate_oauth_login(args) ==
    LET m == FirstMissing(args, <<"provider">>)
        params == [k \in {"redirect_uri", "state"} \cap DOMAIN args |-> args[k]]
    IN  IF m # "" THEN KeyError(m)
        ELSE _make_request("GET", "/api/v1/auth/oauth/" \o Str(args["provider"]),
                          None, D(params), None)

_handle_oauth_callback(args) ==
    LET m == FirstMissing(args, <<"provider", "code">>)
    IN  IF m # "" THEN KeyError(m)
        ELSE _make_request("GET", "/api/v1/auth/oauth/callback/" \o Str(args["provider"]),
                          None,
                          D("code" :> args["code"] @@ "state" :> Get(args, "state", None)),
                          None)

_link_oauth_account(args) ==
    LET m == FirstMissing(args, <<"provider", "code">>)
    IN  IF m # "" THEN KeyError(m)
        ELSE _make_request("POST", "/api/v1/auth/oauth/link/" \o Str(args["provider"]),
                          D("code" :> args["code"]), None, None)

---------------------------------------------------------------------------
(* _execute_tool *)

\* the if/elif chain on name, compared with ==
dispatch(nm, args) ==
    CASE nm = "create_bug_report"        -> _create_bug_report(args)
      [] nm = "get_bug_report"           -> _get_bug_report(args)
      [] nm = "list_bug_reports"         -> _list_bug_reports(args)
      [] nm = "vote_on_bug"              -> _vote_on_bug(args)
      [] nm = "add_bug_comment"          -> _add_bug_comment(args)
      [] nm = "update_bug_status"        -> _update_bug_status(args)
      [] nm = "register_user"            -> _register_user(args)
      [] nm = "login_user"               -> _login_user(args)
      [] nm = "get_user_profile"         -> _get_user_profile(args)
      [] nm = "update_user_profile"      -> _update_user_profile(args)
      [] nm = "request_password_reset"   -> _request_password_reset(args)
      [] nm = "verify_email"             -> _verify_email(args)
      [] nm = "list_companies"           -> _list_companies(args)
      [] nm = "get_company"              -> _get_company(args)
      [] nm = "claim_company"            -> _claim_company(args)
      [] nm = "verify_company_claim"     -> _verify_company_claim(args)
      [] nm = "get_company_dashboard"    -> _get_company_dashboard(args)
      [] nm = "add_team_member"          -> _add_team_member(args)
      [] nm = "remove_team_member"       -> _remove_team_member(args)
      [] nm = "get_admin_dashboard"      -> _get_admin_dashboard(args)
      [] nm = "list_bugs_for_moderation" -> _list_bugs_for_moderation(args)
      [] nm = "flag_bug"                 -> _flag_bug(args)
      [] nm = "remove_bug"               -> _remove_bug(args)
      [] nm = "restore_bug"              -> _restore_bug(args)
      [] nm = "merge_bugs"               -> _merge_bugs(args)
      [] nm = "get_audit_logs"           -> _get_audit_logs(args)
      [] nm = "initiate_oauth_login"     -> _initiate_oauth_login(args)
      [] nm = "handle_oauth_callback"    -> _handle_oauth_callback(args)
      [] nm = "link_oauth_account"       -> _link_oauth_account(args)
      [] OTHER                           -> Raise("ValueError", "Unknown tool: " \o nm)

\* str.lower() on the names the runtime may deliver
lower(nm) ==
    CASE nm = "Get_Bug_Report" -> "get_bug_report"
      [] nm = "LOGIN_USER"     -> "login_user"
      [] OTHER                 -> nm

\* _execute_tool comparing name.lower()
_execute_tool_casefold(nm, args) == dispatch(lower(nm), args)

_execute_tool(nm, args) == dispatch(nm, args)

---------------------------------------------------------------------------
(* _make_request, from the await on *)

\* what self.client.request can come back with: a response (status, text), or an
\* exception raised by the transport
HttpResponse(status_code, text) ==
    [kind |-> "response", status_code |-> status_code, text |-> text]
TransportFailure(type, msg) == [kind |-> "error", type |-> type, msg |-> msg]
NoResponse == [kind |-> "none"]

\* class hierarchy: what `except Exception` catches
IsException(type) == type \notin {"CancelledError", "KeyboardInterrupt", "SystemExit"}

\* response.json() on the response texts of the model
json_loads(text) ==
    CASE text = "{\"error\": \"not found\"}" -> Return(D("error" :> S("not found")))
      [] text = "{\"token\": \"tok-9\"}"     -> Return(D("token" :> S("tok-9")))
      [] text = "[\"x\"]"                    -> Return(L(<<S("x")>>))
      [] OTHER -> Raise("JSONDecodeError", "Expecting value: line 1 column 1 (char 0)")

\* response.raise_for_status() lets the response through
is_success(status_code) == status_code \in 200..299

\* the block without the attempt to parse the body
error_detail_raw(resp) == "HTTP " \o ToString(resp.status_code) \o ": " \o resp.text

\* the except httpx.HTTPStatusError block
error_detail(resp) ==
    LET error_body == json_loads(resp.text)
    IN  IF error_body.kind = "return" /\ error_body.value.ty = "dict"
        THEN "HTTP " \o ToString(resp.status_code) \o ": "
                \o Str(Get(error_body.value.d, "error", S("Unknown error")))
        ELSE "HTTP " \o ToString(resp.status_code) \o ": " \o resp.text

\* the try block around the request, given what the client came back with
receive(resp) ==
    IF resp.kind = "error"
    THEN IF IsException(resp.type)
         THEN Raise("Exception", "Request failed: " \o resp.msg)
         ELSE Raise(resp.type, resp.msg)
    ELSE IF ~is_success(resp.status_code)
    THEN Raise("Exception", error_detail(resp))
    ELSE LET body == json_loads(resp.text)
         IN  IF body.kind = "return" THEN body
             ELSE Raise("Exception", "Request failed: " \o body.msg)

---------------------------------------------------------------------------
(* handle_call_tool *)

TextContent(text) == [type |-> "text", text |-> text]

\* json.dumps(v, indent=2) of a scalar
dumps_scalar(v) ==
    CASE v.ty = "NoneType" -> "null"
      [] v.ty = "str"      -> "\"" \o v.s \o "\""
      [] OTHER             -> "<object>"

RECURSIVE dumps_items(_)
dumps_items(q) ==
    IF q = <<>> THEN ""
    ELSE "  " \o dumps_scalar(Head(q))
            \o (IF Len(q) > 1 THEN ",\n" ELSE "\n") \o dumps_items(Tail(q))

RECURSIVE dumps_members(_, _)
dumps_members(d, keys) ==
    IF keys = {} THEN ""
    ELSE LET k == CHOOSE x \in keys : TRUE
         IN  "  \"" \o k \o "\": " \o dumps_scalar(d[k])
                \o (IF keys # {k} THEN ",\n" ELSE "\n") \o dumps_members(d, keys \ {k})

\* json.dumps(v, indent=2); the member order of a dict of several keys is the
\* insertion order in Python and is not modelled (the responses have one key)
dumps(v) ==
    CASE v.ty = "dict" -> IF DOMAIN v.d = {} THEN "{}"
                          ELSE "{\n" \o dumps_members(v.d, DOMAIN v.d) \o "}"
      [] v.ty = "list" -> IF v.l = <<>> THEN "[]" ELSE "[\n" \o dumps_items(v.l) \o "]"
      [] OTHER         -> dumps_scalar(v)

\* arguments or {}
or_empty(args) == IF Truthy(args) THEN args ELSE EmptyDict

\* the handler without its except clause
handle_outcome_uncaught(outcome) ==
    IF outcome.kind = "return"
    THEN [pc |-> "done", result |-> <<TextContent(dumps(outcome.value))>>]
    ELSE [pc |-> "escaped", result |-> <<>>]

\* the try/except of handle_call_tool applied to what _execute_tool came to:
\* the payload returned, or the exception that leaves the handler
handle_outcome(outcome) ==
    IF outcome.kind = "return"
    THEN [pc |-> "done", result |-> <<TextContent(dumps(outcome.value))>>]
    ELSE IF IsException(outcome.type)
    THEN [pc |-> "done", result |-> <<TextContent("Error: " \o outcome.msg)>>]
    ELSE [pc |-> "escaped", result |-> <<>>]

---------------------------------------------------------------------------
(* the inputs *)

ToolNames ==
    {"create_bug_report", "get_bug_report", "list_bug_reports", "vote_on_bug",
     "add_bug_comment", "update_bug_status", "register_user", "login_user",
     "get_user_profile", "update_user_profile", "request_password_reset",
     "verify_email", "list_companies", "get_company", "claim_company",
     "verify_company_claim", "get_company_dashboard", "add_team_member",
     "remove_team_member", "get_admin_dashboard", "list_bugs_for_moderation",
     "flag_bug", "remove_bug", "restore_bug", "merge_bugs", "get_audit_logs",
     "initiate_oauth_login", "handle_oauth_callback", "link_oauth_account"}

\* names the dispatch does not know: another case, the empty name
OtherNames == {"Get_Bug_Report", "LOGIN_USER", ""}

Names == ToolNames \cup OtherNames

PathKeys == {"bug_id", "company_id", "provider"}
OptionalKeys == {"resolution_notes", "role", "notes", "redirect_uri", "state"}

FullArgs ==
    "bug_id" :> S("abc-123") @@ "company_id" :> S("c-9") @@ "provider" :> S("google")
    @@ "vote_type" :> S("up") @@ "content" :> S("text") @@ "status" :> S("fixed")
    @@ "resolution_notes" :> S("patched") @@ "verification_email" :> S("a@b.c")
    @@ "verification_token" :> S("vt") @@ "user_email" :> S("u@b.c")
    @@ "role" :> S("admin") @@ "user_id" :> S("u-7") @@ "reason" :> S("spam")
    @@ "notes" :> S("dup") @@ "redirect_uri" :> S("http://cb") @@ "state" :> S("st")
    @@ "code" :> S("xyz")

Restrict(f, keys) == [k \in DOMAIN f \cap keys |-> f[k]]

\* the argument mappings a caller may send
ArgBags ==
    { None,
      EmptyDict,
      D(FullArgs),
      D(Restrict(FullArgs, DOMAIN FullArgs \ PathKeys)),
      D(Restrict(FullArgs, DOMAIN FullArgs \ OptionalKeys)),
      D(Restrict(FullArgs, PathKeys)),
      D(("state" :> None) @@ ("notes" :> None) @@ FullArgs),
      D(("auth_token" :> S("tok-call")) @@ FullArgs) }

ErrorTexts == {"{\"error\": \"not found\"}", "{\"token\": \"tok-9\"}", "[\"x\"]",
               "<html>Bad Gateway</html>"}

\* the backend's answers and the transport's failures
Responses ==
    {HttpResponse(200, x) : x \in {"{\"token\": \"tok-9\"}", "<html>Bad Gateway</html>"}}
    \cup {HttpResponse(404, x) : x \in ErrorTexts}
    \cup {HttpResponse(500, "<html>Bad Gateway</html>"),
          TransportFailure("ConnectError", "All connection attempts failed"),
          TransportFailure("ReadTimeout", "")}

---------------------------------------------------------------------------
(* the state machine *)

Init ==
    /\ api_key \in ApiKeys
    /\ pc = [t \in Tasks |-> "idle"]
    /\ name = [t \in Tasks |-> ""]
    /\ arguments = [t \in Tasks |-> None]
    /\ sent = [t \in Tasks |-> <<>>]
    /\ response = [t \in Tasks |-> NoResponse]
    /\ result = [t \in Tasks |-> <<>>]
    /\ login_result = None

\* the runtime delivers call_tool(nm, args); the caller sequences its calls
Call(t, nm, args) ==
    /\ \A u \in Tasks : pc[u] = "idle"
    /\ pc' = [pc EXCEPT ![t] = "called"]
    /\ name' = [name EXCEPT ![t] = nm]
    /\ arguments' = [arguments EXCEPT ![t] = args]
    /\ UNCHANGED <<api_key, sent, response, result, login_result>>

\* Execute behind a lock that an invocation keeps while it awaits the client
Execute_serialized(t) ==
    /\ pc[t] = "called"
    /\ \A u \in Tasks : pc[u] # "awaiting"
    /\ LET outcome == _execute_tool(name[t], or_empty(arguments[t]).d)
       IN  IF outcome.kind = "await"
           THEN /\ sent' = [sent EXCEPT ![t] = Append(@, outcome.request)]
                /\ pc' = [pc EXCEPT ![t] = "awaiting"]
                /\ UNCHANGED result
           ELSE /\ pc' = [pc EXCEPT ![t] = handle_outcome(outcome).pc]
                /\ result' = [result EXCEPT ![t] = handle_outcome(outcome).result]
                /\ UNCHANGED sent
    /\ UNCHANGED <<api_key, name, arguments, response, login_result>>

\* handle_call_tool runs to its first suspension: the await on the client, or
\* its return when the tool raised before any request
Execute(t) ==
    /\ pc[t] = "called"
    /\ LET outcome == _execute_tool(name[t], or_empty(arguments[t]).d)
       IN  IF outcome.kind = "await"
           THEN /\ sent' = [sent EXCEPT ![t] = Append(@, outcome.request)]
                /\ pc' = [pc EXCEPT ![t] = "awaiting"]
                /\ UNCHANGED result
           ELSE /\ pc' = [pc EXCEPT ![t] = handle_outcome(outcome).pc]
                /\ result' = [result EXCEPT ![t] = handle_outcome(outcome).result]
                /\ UNCHANGED sent
    /\ UNCHANGED <<api_key, name, arguments, response, login_result>>

\* the client comes back with resp; _make_request and handle_call_tool finish
Respond(t, resp) ==
    /\ pc[t] = "awaiting"
    /\ response' = [response EXCEPT ![t] = resp]
    /\ LET outcome == receive(resp)
       IN  /\ pc' = [pc EXCEPT ![t] = handle_outcome(outcome).pc]
           /\ result' = [result EXCEPT ![t] = handle_outcome(outcome).result]
           /\ login_result' = IF name[t] = "login_user" /\ outcome.kind = "return"
                              THEN outcome.value ELSE login_result
    /\ UNCHANGED <<api_key, name, arguments, sent>>

\* the runtime takes the payload (or the exception); the slot is free again
Deliver(t) ==
    /\ pc[t] \in {"done", "escaped"}
    /\ pc' = [pc EXCEPT ![t] = "idle"]
    /\ name' = [name EXCEPT ![t] = ""]
    /\ arguments' = [arguments EXCEPT ![t] = None]
    /\ sent' = [sent EXCEPT ![t] = <<>>]
    /\ response' = [response EXCEPT ![t] = NoResponse]
    /\ result' = [result EXCEPT ![t] = <<>>]
    /\ UNCHANGED <<api_key, login_result>>

Next ==
    \/ \E t \in Tasks, nm \in Names, args \in ArgBags : Call(t, nm, args)
    \/ \E t \in Tasks : Execute(t)
    \/ \E t \in Tasks, resp \in Responses : Respond(t, resp)
    \/ \E t \in Tasks : Deliver(t)

Spec == Init /\ [][Next]_vars

\* the event loop runs a ready handler, the client's 30 s timeout ends every
\* wait, and the runtime takes every result
FairSpec ==
    /\ Spec
    /\ \A t \in Tasks : WF_vars(Execute(t))
    /\ \A t \in Tasks : WF_vars(\E resp \in Responses : Respond(t, resp))
    /\ \A t \in Tasks : WF_vars(Deliver(t))

---------------------------------------------------------------------------
(* invocations in flight together *)

\* the invocations and the answers of the interleaved runs
InFlightCalls ==
    { <<"get_bug_report", D(FullArgs)>>,
      <<"login_user", D(FullArgs)>>,
      <<"get_bug_report", EmptyDict>>,
      <<"Get_Bug_Report", None>> }

InFlightResponses ==
    { HttpResponse(200, "{\"token\": \"tok-9\"}"),
      HttpResponse(404, "{\"error\": \"not found\"}"),
      TransportFailure("ConnectError", "All connection attempts failed"),
      TransportFailure("ReadTimeout", "") }

\* the runtime delivers call_tool(nm, args) without waiting for the earlier
\* invocations: each runs as a task of its own
CallInFlight(t, nm, args) ==
    /\ pc[t] = "idle"
    /\ pc' = [pc EXCEPT ![t] = "called"]
    /\ name' = [name EXCEPT ![t] = nm]
    /\ arguments' = [arguments EXCEPT ![t] = args]
    /\ UNCHANGED <<api_key, sent, response, result, login_result>>

\* the runtime cancels the task of an invocation at its wait: the await raises
\* CancelledError, which is no Exception
Cancelled == TransportFailure("CancelledError", "")

Cancel(t) ==
    /\ pc[t] = "awaiting"
    /\ response' = [response EXCEPT ![t] = Cancelled]
    /\ LET outcome == receive(Cancelled)
       IN  /\ pc' = [pc EXCEPT ![t] = handle_outcome(outcome).pc]
           /\ result' = [result EXCEPT ![t] = handle_outcome(outcome).result]
    /\ UNCHANGED <<api_key, name, arguments, sent, login_result>>

InFlightNext ==
    \/ \E t \in Tasks, c \in InFlightCalls : CallInFlight(t, c[1], c[2])
    \/ \E t \in Tasks : Execute(t)
    \/ \E t \in Tasks, resp \in InFlightResponses : Respond(t, resp)
    \/ \E t \in Tasks : Cancel(t)
    \/ \E t \in Tasks : Deliver(t)

InFlightSpec == Init /\ [][InFlightNext]_vars

---------------------------------------------------------------------------
(* the recipes of the tools, as a table: method, path = prefix [key suffix],   *)
(* and the keys the tool subscripts (args[key]), in the order it reads them    *)

Rcp(method, prefix, key, suffix, required) ==
    [method |-> method, prefix |-> prefix, key |-> key, suffix |-> suffix,
     required |-> required]

Recipe(nm) ==
    CASE nm = "create_bug_report"        -> Rcp("POST", "/api/v1/bugs", "", "", {})
      [] nm = "get_bug_report"           -> Rcp("GET", "/api/v1/bugs/", "bug_id", "", {"bug_id"})
      [] nm = "list_bug_reports"         -> Rcp("GET", "/api/v1/bugs", "", "", {})
      [] nm = "vote_on_bug"              ->
            Rcp("POST", "/api/v1/bugs/", "bug_id", "/vote", {"bug_id", "vote_type"})
      [] nm = "add_bug_comment"          ->
            Rcp("POST", "/api/v1/bugs/", "bug_id", "/comments", {"bug_id", "content"})
      [] nm = "update_bug_status"        ->
            Rcp("PATCH", "/api/v1/bugs/", "bug_id", "/status", {"bug_id", "status"})
      [] nm = "register_user"            -> Rcp("POST", "/api/v1/auth/register", "", "", {})
      [] nm = "login_user"               -> Rcp("POST", "/api/v1/auth/login", "", "", {})
      [] nm = "get_user_profile"         -> Rcp("GET", "/api/v1/auth/profile", "", "", {})
      [] nm = "update_user_profile"      -> Rcp("PUT", "/api/v1/auth/profile", "", "", {})
      [] nm = "request_password_reset"   ->
            Rcp("POST", "/api/v1/auth/password-reset", "", "", {})
      [] nm = "verify_email"             -> Rcp("GET", "/api/v1/auth/verify-email", "", "", {})
      [] nm = "list_companies"           -> Rcp("GET", "/api/v1/companies", "", "", {})
      [] nm = "get_company"              ->
            Rcp("GET", "/api/v1/companies/", "company_id", "", {"company_id"})
      [] nm = "claim_company"            ->
            Rcp("POST", "/api/v1/companies/", "company_id", "/claim",
                {"company_id", "verification_email"})
      [] nm = "verify_company_claim"     ->
            Rcp("POST", "/api/v1/companies/", "company_id", "/verify",
                {"company_id", "verification_token"})
      [] nm = "get_company_dashboard"    ->
            Rcp("GET", "/api/v1/companies/", "company_id", "/dashboard", {"company_id"})
      [] nm = "add_team_member"          ->
            Rcp("POST", "/api/v1/companies/", "company_id", "/members",
                {"company_id", "user_email"})
      [] nm = "remove_team_member"       ->
            Rcp("DELETE", "/api/v1/companies/", "company_id", "/members",
                {"company_id", "user_id"})
      [] nm = "get_admin_dashboard"      -> Rcp("GET", "/api/v1/admin/dashboard", "", "", {})
      [] nm = "list_bugs_for_moderation" -> Rcp("GET", "/api/v1/admin/bugs", "", "", {})
      [] nm = "flag_bug"                 ->
            Rcp("POST", "/api/v1/admin/bugs/", "bug_id", "/flag", {"bug_id", "reason"})
      [] nm = "remove_bug"               ->
            Rcp("DELETE", "/api/v1/admin/bugs/", "bug_id", "", {"bug_id"})
      [] nm = "restore_bug"              ->
            Rcp("POST", "/api/v1/admin/bugs/", "bug_id", "/restore", {"bug_id"})
      [] nm = "merge_bugs"               -> Rcp("POST", "/api/v1/admin/bugs/merge", "", "", {})
      [] nm = "get_audit_logs"           -> Rcp("GET", "/api/v1/admin/audit-logs", "", "", {})
      [] nm = "initiate_oauth_login"     ->
            Rcp("GET", "/api/v1/auth/oauth/", "provider", "", {"provider"})
      [] nm = "handle_oauth_callback"    ->
            Rcp("GET", "/api/v1/auth/oauth/callback/", "provider", "", {"provider", "code"})
      [] nm = "link_oauth_account"       ->
            Rcp("POST", "/api/v1/auth/oauth/link/", "provider", "", {"provider", "code"})

---------------------------------------------------------------------------
(* what the claims speak of *)

\* the argument dict the handler works on
ArgsOf(t) == or_empty(arguments[t]).d

\* the invocation has run: it waits for the backend or it has finished
Started(t) == pc[t] \in {"awaiting", "done", "escaped"}

\* a known tool invoked with every key its implementation subscripts
ValidCall(t) == name[t] \in ToolNames /\ Recipe(name[t]).required \subseteq DOMAIN ArgsOf(t)

\* the path of the tool's recipe after substitution
RecipePath(t) ==
    LET r == Recipe(name[t])
    IN  IF r.key = "" THEN r.prefix
        ELSE r.prefix \o Str(ArgsOf(t)[r.key]) \o r.suffix

\* the credentials of an invocation, as the specification names them
PerCallToken(t) == Get(ArgsOf(t), "auth_token", None)
SessionToken ==
    IF login_result.ty = "dict" THEN Get(login_result.d, "token", None) ELSE None

HasPrefix(text, prefix) ==
    Len(text) >= Len(prefix) /\ SubSeq(text, 1, Len(prefix)) = prefix

---------------------------------------------------------------------------
(* C1 *)

\* C1: a tool name that is not exactly one of the names _execute_tool handles
\* (another case, the empty name), with any arguments, issues no HTTP
\* request and call_tool returns the one text "Error: Unknown tool: <name>".
C1_UnknownToolNoRequest ==
    \A t \in Tasks :
        (Started(t) /\ name[t] \notin ToolNames) =>
            /\ pc[t] = "done"
            /\ sent[t] = <<>>
            /\ result[t] = <<TextContent("Error: Unknown tool: " \o name[t])>>

C1_Witness ==
    \E t \in Tasks :
        /\ pc[t] = "done"
        /\ name[t] = "Get_Bug_Report"
        /\ arguments[t] = D(FullArgs)
        /\ sent[t] = <<>>
        /\ result[t] = <<TextContent("Error: Unknown tool: Get_Bug_Report")>>

---------------------------------------------------------------------------
(* C2 *)

\* C2: every outbound request picks its authentication header by precedence:
\* the bearer token supplied for this call, else the session bearer token, else
\* the static API key as X-API-Key.
C2_AuthPrecedence ==
    \A t \in Tasks : \A i \in 1..Len(sent[t]) :
        LET h == sent[t][i].headers
        IN  IF Truthy(PerCallToken(t))
            THEN /\ "Authorization" \in DOMAIN h
                 /\ h["Authorization"] = "Bearer " \o Str(PerCallToken(t))
            ELSE IF Truthy(SessionToken) /\ pc[t] = "awaiting"
            THEN /\ "Authorization" \in DOMAIN h
                 /\ h["Authorization"] = "Bearer " \o Str(SessionToken)
            ELSE Truthy(api_key) =>
                    /\ "X-API-Key" \in DOMAIN h
                    /\ h["X-API-Key"] = Str(api_key)

---------------------------------------------------------------------------
(* C3 *)

\* C3: once a login_user call has succeeded, every later invocation without a
\* per-call token sends "Authorization: Bearer <the token that login obtained>";
\* a failed login leaves the session token as it was.
C3_SessionTokenReused ==
    \A t \in Tasks :
        (pc[t] = "awaiting" /\ Truthy(SessionToken) /\ ~Truthy(PerCallToken(t))) =>
            /\ "Authorization" \in DOMAIN sent[t][1].headers
            /\ sent[t][1].headers["Authorization"] = "Bearer " \o Str(SessionToken)

---------------------------------------------------------------------------
(* C4 *)

AuthHeaderNames == {"Authorization", "X-API-Key"}

\* C4: no outbound request carries both Authorization and X-API-Key; and when no
\* credential applies, the request of a valid call carries neither and is sent.
C4_AtMostOneAuthHeader ==
    \A t \in Tasks :
        /\ \A i \in 1..Len(sent[t]) :
              Cardinality(AuthHeaderNames \cap DOMAIN sent[t][i].headers) <= 1
        /\ (Started(t) /\ ValidCall(t) /\ ~Truthy(api_key)) =>
              /\ Len(sent[t]) = 1
              /\ AuthHeaderNames \cap DOMAIN sent[t][1].headers = {}

C4_Witness ==
    \E t \in Tasks :
        /\ pc[t] = "awaiting"
        /\ api_key = S("")
        /\ name[t] = "get_user_profile"
        /\ Len(sent[t]) = 1
        /\ DOMAIN sent[t][1].headers = {"Content-Type", "User-Agent"}

---------------------------------------------------------------------------
(* C5 *)

\* the backend answered 2xx with a body that parses as JSON
BackendSuccess(t) ==
    /\ response[t].kind = "response"
    /\ is_success(response[t].status_code)
    /\ json_loads(response[t].text).kind = "return"

\* exactly one text payload: the pretty-printed backend JSON on success, and a
\* text "Error: <summary>" otherwise
OnePayload(t) ==
    /\ Len(result[t]) = 1
    /\ result[t][1].type = "text"
    /\ IF BackendSuccess(t)
       THEN result[t][1].text = dumps(json_loads(response[t].text).value)
       ELSE HasPrefix(result[t][1].text, "Error: ")

\* C5: every call_tool invocation, whatever the name, the arguments and the
\* backend's behaviour, eventually returns exactly one text payload (the
\* pretty-printed JSON or "Error: <summary>"), no exception leaves the handler,
\* and the server comes back, again and again, to where it takes a later
\* invocation.
C5_AlwaysOnePayload ==
    /\ \A t \in Tasks : (pc[t] \in {"called", "awaiting"}) ~> (pc[t] = "done" /\ OnePayload(t))
    /\ [](\A t \in Tasks : pc[t] # "escaped" /\ (pc[t] = "done" => OnePayload(t)))
    /\ []<>(\A t \in Tasks : pc[t] = "idle")

C5_Witness ==
    \E t \in Tasks :
        /\ pc[t] = "done"
        /\ response[t] = TransportFailure("ReadTimeout", "")
        /\ result[t] = <<TextContent("Error: Request failed: ")>>

---------------------------------------------------------------------------
(* C6 *)

\* C6: a known tool invoked with all its required arguments makes exactly one
\* HTTP attempt, with the method and the substituted path of its recipe, also
\* once the attempt has failed (non-2xx, transport failure): no retry.
C6_ExactlyOneAttempt ==
    \A t \in Tasks :
        (Started(t) /\ ValidCall(t)) =>
            /\ Len(sent[t]) = 1
            /\ sent[t][1].method = Recipe(name[t]).method
            /\ sent[t][1].url = base_url \o RecipePath(t)

C6_Witness ==
    \E t \in Tasks :
        /\ pc[t] = "done"
        /\ name[t] = "get_company_dashboard"
        /\ response[t] = TransportFailure("ConnectError", "All connection attempts failed")
        /\ Len(sent[t]) = 1
        /\ sent[t][1].method = "GET"
        /\ sent[t][1].url = "http://localhost:8080/api/v1/companies/c-9/dashboard"

---------------------------------------------------------------------------
(* C7 *)

\* the backend answered with a 4xx/5xx status
BackendError(t) ==
    /\ pc[t] = "done"
    /\ response[t].kind = "response"
    /\ response[t].status_code \in 400..599

BodyIsJson(text) == json_loads(text).kind = "return"
BodyIsJsonObject(text) == BodyIsJson(text) /\ json_loads(text).value.ty = "dict"
BodyHasErrorField(text) ==
    BodyIsJsonObject(text) /\ "error" \in DOMAIN json_loads(text).value.d
BodyErrorField(text) == Str(json_loads(text).value.d["error"])

ErrorPayload(t, message) ==
    result[t] = <<TextContent("Error: HTTP " \o ToString(response[t].status_code)
                                \o ": " \o message)>>

\* C7 as stated: on 4xx/5xx the summary is "HTTP <status>: <message>", the
\* message being the 'error' field of a JSON body that has one, and the raw
\* response text in every other case (not JSON, or JSON without 'error').
C7_ErrorFieldOrRawText ==
    \A t \in Tasks :
        BackendError(t) =>
            ErrorPayload(t, IF BodyHasErrorField(response[t].text)
                            THEN BodyErrorField(response[t].text)
                            ELSE response[t].text)

\* C7 amended: on 4xx/5xx the summary is "HTTP <status>: <message>", the message
\* being the 'error' field of a JSON object body that has one, the fixed text
\* "Unknown error" for a JSON object body without an 'error' field, and the raw
\* response text when the body is not JSON or is JSON but not an object.
C7_ErrorFieldUnknownOrRawText ==
    \A t \in Tasks :
        BackendError(t) =>
            ErrorPayload(t, IF BodyHasErrorField(response[t].text)
                            THEN BodyErrorField(response[t].text)
                            ELSE IF BodyIsJsonObject(response[t].text)
                            THEN "Unknown error"
                            ELSE response[t].text)

C7_Witness ==
    \E t \in Tasks :
        /\ pc[t] = "done"
        /\ name[t] = "get_bug_report"
        /\ response[t] = HttpResponse(404, "{\"token\": \"tok-9\"}")
        /\ result[t] = <<TextContent("Error: HTTP 404: Unknown error")>>

---------------------------------------------------------------------------
(* C8 *)

\* C8 as stated: no outbound GET or DELETE request carries a JSON body.
C8_NoBodyOnGetDelete ==
    \A t \in Tasks : \A i \in 1..Len(sent[t]) :
        sent[t][i].method \in {"GET", "DELETE"} => sent[t][i].json = None

\* C8 amended: no outbound GET request carries a JSON body; a DELETE request
\* carries one exactly when the tool is remove_team_member, whose body is
\* {"user_id": <user_id>} (remove_bug's DELETE has none).
C8_NoBodyOnGetBodyOnMemberDelete ==
    \A t \in Tasks : \A i \in 1..Len(sent[t]) :
        /\ sent[t][i].method = "GET" => sent[t][i].json = None
        /\ sent[t][i].method = "DELETE" =>
              IF name[t] = "remove_team_member"
              THEN sent[t][i].json = D("user_id" :> ArgsOf(t)["user_id"])
              ELSE sent[t][i].json = None

C8_Witness ==
    \E t \in Tasks :
        /\ pc[t] = "awaiting"
        /\ name[t] = "remove_team_member"
        /\ sent[t][1].method = "DELETE"
        /\ sent[t][1].json = D("user_id" :> S("u-7"))

---------------------------------------------------------------------------
(* C9 *)

\* C9: a tool whose path has a parameter (bug_id, company_id, provider), invoked
\* without it, fails before any network I/O: no HTTP request is issued and the
\* caller gets an "Error: ..." payload.
C9_MissingPathParamNoRequest ==
    \A t \in Tasks :
        (/\ Started(t)
         /\ name[t] \in ToolNames
         /\ Recipe(name[t]).key # ""
         /\ Recipe(name[t]).key \notin DOMAIN ArgsOf(t)) =>
            /\ pc[t] = "done"
            /\ sent[t] = <<>>
            /\ Len(result[t]) = 1
            /\ HasPrefix(result[t][1].text, "Error: ")

C9_Witness ==
    \E t \in Tasks :
        /\ pc[t] = "done"
        /\ name[t] = "get_bug_report"
        /\ arguments[t] = D(Restrict(FullArgs, DOMAIN FullArgs \ PathKeys))
        /\ sent[t] = <<>>
        /\ result[t] = <<TextContent("Error: 'bug_id'")>>

---------------------------------------------------------------------------
(* C10 *)

\* C10: in every outbound request, a query parameter whose argument is absent or
\* null is left out of the params handed to the HTTP client; handle_oauth_callback
\* without 'state' sends only 'code'.
C10_NoNullQueryParams ==
    \A t \in Tasks : \A i \in 1..Len(sent[t]) :
        LET q == sent[t][i].params
        IN  q.ty = "dict" =>
               /\ \A k \in DOMAIN q.d : q.d[k] # None
               /\ (name[t] = "handle_oauth_callback" /\ "state" \notin DOMAIN ArgsOf(t))
                     => DOMAIN q.d = {"code"}

---------------------------------------------------------------------------
(* C11 *)

\* the payload of an invocation is the one of its own answer
OwnPayload(t) ==
    /\ Len(result[t]) = 1
    /\ result[t][1].type = "text"
    /\ LET text == result[t][1].text
           resp == response[t]
       IN  CASE resp.kind = "none"  -> sent[t] = <<>> /\ HasPrefix(text, "Error: ")
             [] resp.kind = "error" -> text = "Error: Request failed: " \o resp.msg
             [] BackendSuccess(t)   -> text = dumps(json_loads(resp.text).value)
             [] OTHER               ->
                    HasPrefix(text, IF is_success(resp.status_code)
                                    THEN "Error: Request failed: "
                                    ELSE "Error: HTTP " \o ToString(resp.status_code) \o ": ")

\* the request of an invocation is the one of its own tool and arguments
OwnRequest(t) ==
    IF ValidCall(t)
    THEN /\ Len(sent[t]) = 1
         /\ sent[t][1].method = Recipe(name[t]).method
         /\ sent[t][1].url = base_url \o RecipePath(t)
    ELSE sent[t] = <<>>

\* what belongs to the invocation in slot t
Slot(t) == <<pc[t], name[t], arguments[t], sent[t], response[t], result[t]>>

\* C11: with several invocations in flight, interleaved at their waits in any
\* order: an invocation is never held back by another one (a called handler can
\* run, a waiting one can take its answer, whatever the others do); each issues
\* the request of its own tool and arguments and returns the payload of its own
\* answer, and only a cancelled one ends without a payload; and a step of one
\* invocation (its answer, failure, timeout or cancellation) changes nothing
\* of any other invocation.
C11_InFlightIndependent ==
    /\ [](\A t \in Tasks :
            /\ pc[t] = "called" => ENABLED Execute(t)
            /\ pc[t] = "awaiting" => ENABLED (\E resp \in InFlightResponses : Respond(t, resp))
            /\ Started(t) => OwnRequest(t)
            /\ pc[t] = "done" => OwnPayload(t)
            /\ pc[t] = "escaped" => response[t] = Cancelled)
    /\ [][\A t, u \in Tasks : (t # u /\ pc'[t] # pc[t]) => Slot(u)' = Slot(u)]_vars

C11_Witness ==
    /\ pc[1] = "awaiting"
    /\ name[1] = "login_user"
    /\ sent[1][1].url = "http://localhost:8080/api/v1/auth/login"
    /\ pc[2] = "done"
    /\ name[2] = "get_bug_report"
    /\ Len(sent[2]) = 1
    /\ sent[2][1].url = "http://localhost:8080/api/v1/bugs/abc-123"
    /\ response[2] = HttpResponse(404, "{\"error\": \"not found\"}")
    /\ result[2] = <<TextContent("Error: HTTP 404: not found")>>

=============================================================================
